---------------------------- MODULE Spec2Model ----------------------------
(***************************************************************************)
(* Model of the orbital motion and auto-framing engine of the avatar       *)
(* scene: src/src/components/cybernetic/SolarSystem.tsx (the SolarSystem   *)
(* React component: its memoised values, its per-frame callback and the    *)
(* registry of planet group handles).                                      *)
(*                                                                         *)
(* Numbers.  A JavaScript number is modelled as an exact rational <<n, d>> *)
(* in lowest terms with d > 0; the non-finite IEEE values are <<0, 0>>     *)
(* (NaN), <<1, 0>> (+Infinity) and <<-1, 0>> (-Infinity).  Rounding of     *)
(* IEEE doubles is not modelled.                                           *)
(*                                                                         *)
(* Angles.  The source measures angles in radians; the model measures them *)
(* in turns (1 turn = 2 * Math.PI radians), so `x * Math.PI * 2` of the    *)
(* source is the angle x of the model.  Math.cos and Math.sin are a table  *)
(* over the lattice of 1/256 turn (the lattice of the 256 path segments):  *)
(* exact at the quarter turns and rounded toward zero to a multiple of     *)
(* 1/64 elsewhere; an angle between two lattice points is rounded down to  *)
(* the lattice.                                                            *)
(***************************************************************************)
EXTENDS Integers, Sequences, FiniteSets, TLC

----------------------------------------------------------------------------
(* IEEE-like arithmetic on exact rationals *)

NaN == <<0, 0>>
PosInf == <<1, 0>>
NegInf == <<-1, 0>>

AbsInt(i) == IF i < 0 THEN -i ELSE i

SgnInt(i) == IF i < 0 THEN -1 ELSE IF i > 0 THEN 1 ELSE 0

RECURSIVE GCD(_, _)
GCD(a, b) == IF b = 0 THEN a ELSE GCD(b, a % b)

\* The number n / d: lowest terms for d # 0, a non-finite value for d = 0.
Q(n, d) ==
  IF d = 0 THEN <<SgnInt(n), 0>>
  ELSE LET g == GCD(AbsInt(n), AbsInt(d))
       IN  <<SgnInt(d) * (n \div g), AbsInt(d) \div g>>

Num(i) == <<i, 1>>

IsFinite(x) == x[2] # 0
IsNaN(x) == x = NaN
Sgn(x) == SgnInt(x[1])

\* x * y
Mul(x, y) ==
  IF IsFinite(x) /\ IsFinite(y)
  THEN IF x[1] = 0 \/ y[1] = 0 THEN <<0, 1>>
       ELSE IF x[2] = 1 /\ y[2] = 1 THEN <<x[1] * y[1], 1>>
       ELSE LET g1 == GCD(AbsInt(x[1]), y[2])
                g2 == GCD(AbsInt(y[1]), x[2])
            IN  <<(x[1] \div g1) * (y[1] \div g2), (x[2] \div g2) * (y[2] \div g1)>>
  ELSE IF IsNaN(x) \/ IsNaN(y) THEN NaN
  ELSE <<Sgn(x) * Sgn(y), 0>>          \* Infinity * 0 = NaN

\* x / y
Div(x, y) ==
  IF IsNaN(x) \/ IsNaN(y) THEN NaN
  ELSE IF ~IsFinite(x) THEN (IF IsFinite(y)
                             THEN <<Sgn(x) * (IF Sgn(y) < 0 THEN -1 ELSE 1), 0>>
                             ELSE NaN)
  ELSE IF ~IsFinite(y) THEN Num(0)
  ELSE IF y[1] = 0 THEN <<Sgn(x), 0>>  \* 0 / 0 = NaN, x / 0 = +-Infinity
  ELSE Mul(x, Q(y[2], y[1]))

\* x + y
Add(x, y) ==
  IF IsFinite(x) /\ IsFinite(y)
  THEN IF x[1] = 0 THEN y
       ELSE IF y[1] = 0 THEN x
       ELSE IF x[2] = y[2] THEN Q(x[1] + y[1], x[2])
       ELSE LET g == GCD(x[2], y[2])
            IN  Q(x[1] * (y[2] \div g) + y[1] * (x[2] \div g), (x[2] \div g) * y[2])
  ELSE IF IsNaN(x) \/ IsNaN(y) THEN NaN
  ELSE IF ~IsFinite(x) THEN (IF ~IsFinite(y) /\ y # x THEN NaN ELSE x)
  ELSE y

Neg(x) == <<-x[1], x[2]>>

\* x < y (false when either is NaN)
Less(x, y) ==
  IF IsNaN(x) \/ IsNaN(y) THEN FALSE
  ELSE IF ~IsFinite(x) \/ ~IsFinite(y)
    THEN (IF ~IsFinite(x) THEN x = NegInf /\ y # NegInf ELSE y = PosInf)
  ELSE x[1] * y[2] < y[1] * x[2]

\* x > y
Greater(x, y) == Less(y, x)

\* Math.min(x, y), Math.max(x, y): NaN when either is NaN
MathMin(x, y) == IF IsNaN(x) \/ IsNaN(y) THEN NaN ELSE IF Less(y, x) THEN y ELSE x

MathMax(x, y) == IF IsNaN(x) \/ IsNaN(y) THEN NaN ELSE IF Less(x, y) THEN y ELSE x

\* x % 1: the remainder has the sign of the dividend; NaN for a non-finite x
Mod1(x) ==
  IF ~IsFinite(x) THEN NaN
  ELSE Q(SgnInt(x[1]) * (AbsInt(x[1]) % x[2]), x[2])

\* The largest r with r * r <= v, for v >= 0.
RECURSIVE ISqrtFrom(_, _)
ISqrtFrom(v, r) == IF (r + 1) * (r + 1) > v THEN r ELSE ISqrtFrom(v, r + 1)

\* Math.sqrt(x): NaN for a negative x, exact when x is the square of a
\* multiple of 1/SqrtResolution, rounded down to such a multiple otherwise.
SqrtResolution == 100

MathSqrt(x) ==
  IF IsNaN(x) \/ Sgn(x) < 0 THEN NaN
  ELSE IF ~IsFinite(x) THEN PosInf
  ELSE Q(ISqrtFrom((x[1] * SqrtResolution * SqrtResolution) \div x[2], 0), SqrtResolution)

----------------------------------------------------------------------------
(* Trigonometry on the lattice of 1/256 turn *)

\* One lattice step per path segment; the quarter table has Lattice / 4 steps
\* and its entries are multiples of 1 / TrigResolution.
Lattice == 4 * 64
TrigResolution == Lattice \div 4

\* floor(64 * cos(2 * pi * k / 256)) for k = 0 .. 64
CosQuarter ==
  <<64, 63, 63, 63, 63, 63, 63, 63, 62, 62, 62, 61, 61, 60, 60, 59,
    59, 58, 57, 57, 56, 55, 54, 54, 53, 52, 51, 50, 49, 48, 47, 46,
    45, 44, 42, 41, 40, 39, 38, 36, 35, 34, 32, 31, 30, 28, 27, 25,
    24, 23, 21, 20, 18, 17, 15, 14, 12, 10, 9, 7, 6, 4, 3, 1, 0>>

\* cos of k / 256 turn, k in 0 .. 255
CosLattice(k) ==
  IF k <= 64 THEN Q(CosQuarter[k + 1], TrigResolution)
  ELSE IF k <= 128 THEN Q(-CosQuarter[128 - k + 1], TrigResolution)
  ELSE IF k <= 192 THEN Q(-CosQuarter[k - 128 + 1], TrigResolution)
  ELSE Q(CosQuarter[256 - k + 1], TrigResolution)

\* The lattice point of an angle (in turns), reduced to one turn.
LatticeIndex(angle) == ((angle[1] * Lattice) \div angle[2]) % Lattice

MathCos(angle) == IF ~IsFinite(angle) THEN NaN ELSE CosLattice(LatticeIndex(angle))

MathSin(angle) ==
  IF ~IsFinite(angle) THEN NaN
  ELSE CosLattice((LatticeIndex(angle) + 3 * (Lattice \div 4)) % Lattice)

----------------------------------------------------------------------------
(* THREE.Vector3 and the rotation part of THREE.Matrix4 *)

\* The rotation matrices of the source have the last row and column of the
\* identity, so applyMatrix4's perspective divide is by 1: a matrix is its
\* upper-left 3 x 3 block, a tuple of three rows.

Zero == Num(0)
One == Num(1)

MakeRotationX(theta) ==
  LET c == MathCos(theta)
      s == MathSin(theta)
  IN  << <<One, Zero, Zero>>, <<Zero, c, Neg(s)>>, <<Zero, s, c>> >>

MakeRotationY(theta) ==
  LET c == MathCos(theta)
      s == MathSin(theta)
  IN  << <<c, Zero, s>>, <<Zero, One, Zero>>, <<Neg(s), Zero, c>> >>

MakeRotationZ(theta) ==
  LET c == MathCos(theta)
      s == MathSin(theta)
  IN  << <<c, Neg(s), Zero>>, <<s, c, Zero>>, <<Zero, Zero, One>> >>

Dot3(r, v) == Add(Add(Mul(r[1], v[1]), Mul(r[2], v[2])), Mul(r[3], v[3]))

\* Matrix4.multiply: m . n
Column(n, j) == <<n[1][j], n[2][j], n[3][j]>>

Multiply(m, n) ==
  << <<Dot3(m[1], Column(n, 1)), Dot3(m[1], Column(n, 2)), Dot3(m[1], Column(n, 3))>>,
     <<Dot3(m[2], Column(n, 1)), Dot3(m[2], Column(n, 2)), Dot3(m[2], Column(n, 3))>>,
     <<Dot3(m[3], Column(n, 1)), Dot3(m[3], Column(n, 2)), Dot3(m[3], Column(n, 3))>> >>

\* Vector3.applyMatrix4: m . v
ApplyMatrix4(v, m) == <<Dot3(m[1], v), Dot3(m[2], v), Dot3(m[3], v)>>

----------------------------------------------------------------------------
(* PlanetConfig *)

\* The value of an optional field that is absent.
Undefined == <<>>

\* x ?? d
Nullish(x, d) == IF x = Undefined THEN d ELSE x

\* The roll about Z chosen by p.orientation: PI / 2, PI / 4 or 0.
OrientationRoll(p) ==
  IF p.orientation = "vertical" THEN Q(1, 4)
  ELSE IF p.orientation = "diagonal" THEN Q(1, 8)
  ELSE Zero

\* makeRotationY(argOfPeriapsis ?? 0) . makeRotationX(inclination * tiltScale)
\*   . makeRotationY(lonOfNode) . makeRotationZ(roll)
OrbitRotation(p, tiltScale) ==
  Multiply(
    Multiply(
      Multiply(MakeRotationY(Nullish(p.argOfPeriapsis, Zero)),
               MakeRotationX(Mul(p.inclination, tiltScale))),
      MakeRotationY(p.lonOfNode)),
    MakeRotationZ(OrientationRoll(p)))

\* b = a * sqrt(1 - e * e)
SemiMinor(p) == Mul(p.a, MathSqrt(Add(One, Neg(Mul(p.e, p.e)))))

\* A faulty variant of EllipsePoint: the ellipse laid out in the XY plane,
\* new Vector3(x, z, 0), instead of the XZ plane.
EllipsePointInXY(p, tiltScale, th) ==
  ApplyMatrix4(<<Mul(p.a, MathCos(th)), Mul(SemiMinor(p), MathSin(th)), Zero>>,
               OrbitRotation(p, tiltScale))

\* The point of the ellipse at angle th, rotated to world space.
EllipsePoint(p, tiltScale, th) ==
  ApplyMatrix4(<<Mul(p.a, MathCos(th)), Zero, Mul(SemiMinor(p), MathSin(th))>>,
               OrbitRotation(p, tiltScale))

segments == 256

\* A faulty variant of LoopCondition: i < segments.
LoopConditionExclusive(i) == i < segments

\* The condition of the sampling loop: i <= segments.
LoopCondition(i) == i <= segments

\* A faulty variant of OrbitPositions: the inclination is not multiplied by
\* tiltScale.
OrbitPositionsUntilted(p, tiltScale) ==
  LET m == OrbitRotation(p, One)
      b == SemiMinor(p)
      pt(i) == LET th == Q(i, segments)
               IN  ApplyMatrix4(<<Mul(p.a, MathCos(th)), Zero, Mul(b, MathSin(th))>>, m)
  IN  [k \in 1..(3 * (segments + 1)) |-> pt((k - 1) \div 3)[((k - 1) % 3) + 1]]

\* The positions pushed for one planet: for i = 0 .. segments the three
\* coordinates of the point at th = (i / segments) * 2 PI.
OrbitPositions(p, tiltScale) ==
  LET m == OrbitRotation(p, tiltScale)
      b == SemiMinor(p)
      pt(i) == LET th == Q(i, segments)
               IN  ApplyMatrix4(<<Mul(p.a, MathCos(th)), Zero, Mul(b, MathSin(th))>>, m)
  IN  [k \in 1..(3 * (segments + 1)) |-> pt((k - 1) \div 3)[((k - 1) % 3) + 1]]

----------------------------------------------------------------------------
(* Configurations, props and viewports the component is run with *)

\* Circular orbit in the reference plane, every optional field given.
Circ ==
  [name |-> "Circ", a |-> Num(2), e |-> Zero, period |-> Num(10),
   inclination |-> Zero, lonOfNode |-> Zero, argOfPeriapsis |-> Zero,
   phase |-> Zero, showOrbit |-> TRUE, direction |-> One,
   orientation |-> "horizontal"]

\* The largest orbit (a = 6.4), optional fields absent.
Outer ==
  [name |-> "Outer", a |-> Q(32, 5), e |-> Zero, period |-> Num(5),
   inclination |-> Q(1, 64), lonOfNode |-> Q(1, 4), argOfPeriapsis |-> Undefined,
   phase |-> Undefined, showOrbit |-> TRUE, direction |-> Undefined,
   orientation |-> "none"]

\* Eccentric, tilted, retrograde orbit with a diagonal roll.
Ecc ==
  [name |-> "Ecc", a |-> One, e |-> Q(3, 5), period |-> Num(5),
   inclination |-> Q(1, 16), lonOfNode |-> Q(1, 4), argOfPeriapsis |-> Q(1, 8),
   phase |-> Q(1, 4), showOrbit |-> TRUE, direction |-> Num(-1),
   orientation |-> "diagonal"]

\* A body whose orbit is not drawn, with a vertical roll.
Hidden ==
  [name |-> "Hidden", a |-> Num(3), e |-> Q(4, 5), period |-> Num(5),
   inclination |-> Q(1, 4), lonOfNode |-> Q(1, 8), argOfPeriapsis |-> Q(1, 4),
   phase |-> Zero, showOrbit |-> FALSE, direction |-> One,
   orientation |-> "vertical"]

\* A circular orbit with all four angles a quarter turn (at tiltScale 1).
Quarter ==
  [name |-> "Quarter", a |-> Num(2), e |-> Zero, period |-> Num(10),
   inclination |-> Q(1, 4), lonOfNode |-> Q(1, 4), argOfPeriapsis |-> Q(1, 4),
   phase |-> Zero, showOrbit |-> TRUE, direction |-> One,
   orientation |-> "vertical"]

\* The planet lists the component is run with, as the source's list is: every
\* eccentricity in [0, 1), every semi-major axis and period positive.
Systems == {<<Circ, Outer>>, <<Ecc>>, <<Hidden>>, <<>>}

Names(ps) == {ps[i].name : i \in 1..Len(ps)}

Origin == <<Zero, Zero, Zero>>

\* The defaults of the component's props.
DefaultProps ==
  [center |-> Origin, scale |-> One, tiltScale |-> Q(7, 2),
   viewportFill |-> Q(7, 10), speedFactor |-> Q(5, 4)]

\* Unit speed and tilt, a fill above the clamp, and the scale that makes the
\* total scale of the two-body system 1 in the 800 x 600 viewport:
\* 600 * 0.95 * 0.5 * 0.9 / 6.4 = 2565 / 64.
UnitProps ==
  [center |-> Origin, scale |-> Q(64, 2565), tiltScale |-> One,
   viewportFill |-> One, speedFactor |-> One]

\* A center offset, a global scale, a fill below the clamp, reversed time.
MovedProps ==
  [center |-> <<One, Num(-2), Q(1, 2)>>, scale |-> Num(2), tiltScale |-> Q(7, 2),
   viewportFill |-> Q(1, 10), speedFactor |-> Num(-1)]

PropsSet == {DefaultProps, UnitProps, MovedProps}

\* Planet lists the PlanetConfig type admits and the source's list does not
\* contain: a body with e = 1, e < 0, e > 1, a = 0, period = 0 or period < 0.
ConfigSystems ==
  {<<[Circ EXCEPT !.e = One]>>,
   <<[Circ EXCEPT !.e = Q(-1, 10)]>>,
   <<[Ecc EXCEPT !.e = Q(5, 4)]>>,
   <<[Circ EXCEPT !.a = Zero]>>,
   <<Outer, [Circ EXCEPT !.period = Zero]>>,
   <<[Ecc EXCEPT !.period = Num(-5)]>>}

\* The values of tiltScale the path sampler is run with.
TiltScales == {One, Q(7, 2)}

\* Viewport sizes delivered by useThree(), the last one of a canvas of no
\* width.
Viewports ==
  {[width |-> Num(800), height |-> Num(600)],
   [width |-> Num(800), height |-> Num(400)],
   [width |-> Zero, height |-> Num(600)]}

\* Elapsed times delivered by the clock: k * TimeStep for k in 0 .. MaxTick.
TimeStep == Q(5, 2)
MaxTick == 2

\* The number of re-renders (resizes and prop changes) of one run.
MaxRenders == 1

----------------------------------------------------------------------------
(* The SolarSystem component *)

VARIABLES
  planets,          \* the PlanetConfig list (useMemo with no dependencies)
  props,            \* the props of the latest render
  viewport,         \* useThree().viewport of the latest render
  autoScale,        \* the useMemo cell of autoScale: [deps, value]
  orbitGeometries,  \* the useMemo cell of orbitGeometries: [deps, value]
  frame,            \* what the registered useFrame callback closes over
  rendered,         \* the transforms of the groups the latest render returned
  planetRefs,       \* planetRefs.current: name -> group (position, rotation)
  mounted,          \* the names whose group is attached to the scene
  clock,            \* the index of the latest elapsed time delivered, -1 before
  renders,          \* the number of re-renders so far
  ticks,            \* the record of the latest frame tick, if any
  sampler           \* the sampling loop of one planet's orbit path, step by step

component ==
  <<planets, props, viewport, autoScale, orbitGeometries, frame, rendered,
    planetRefs, mounted, clock, renders, ticks>>

\* The CyberneticEyes component, rendered next to the SolarSystem.
VARIABLES
  blinkState,       \* useState({ left: 1, right: 1 }): the committed state
  lastBlink,        \* useState(0): the committed state
  blinkStateQueue,  \* the values passed to setBlinkState and not yet rendered
  lastBlinkQueue,   \* the values passed to setLastBlink and not yet rendered
  timeouts,         \* the pending setTimeout callbacks, each with its due time
  now,              \* the time since the clock started, in seconds
  elapsedTime,      \* state.clock.elapsedTime of the latest frame
  advances,         \* the number of times the time has advanced
  blinks            \* the elapsed times of the frames that triggered a blink

cyberneticEyes ==
  <<blinkState, lastBlink, blinkStateQueue, lastBlinkQueue, timeouts, now,
    elapsedTime, advances, blinks>>

\* The eyes after their first render: both open, nothing scheduled.
EyesFirstRender ==
  /\ blinkState = [left |-> One, right |-> One]
  /\ lastBlink = Zero
  /\ blinkStateQueue = <<>>
  /\ lastBlinkQueue = <<>>
  /\ timeouts = <<>>
  /\ now = Zero
  /\ elapsedTime = Zero
  /\ advances = 0
  /\ blinks = <<>>

vars == <<component, sampler, cyberneticEyes>>

\* planets.reduce((m, p) => Math.max(m, p.a), 0)
RECURSIVE MaxAFrom(_, _, _)
MaxAFrom(ps, i, m) ==
  IF i > Len(ps) THEN m ELSE MaxAFrom(ps, i + 1, MathMax(m, ps[i].a))

MaxA(ps) == MaxAFrom(ps, 1, Zero)

\* A faulty variant of AutoScale: viewportFill is used as given, not clamped.
AutoScaleUnclamped(vp, maxA, viewportFill) ==
  LET safety == Q(9, 10)
      targetRadius ==
        Mul(Mul(MathMin(vp.width, vp.height), Mul(viewportFill, Q(5, 10))), safety)
  IN  IF Greater(maxA, Zero) THEN Div(targetRadius, maxA) ELSE One

\* A faulty variant of AutoScale: the larger viewport dimension is taken,
\* Math.max(viewport.width, viewport.height).
AutoScaleOfMax(vp, maxA, viewportFill) ==
  LET clampedFill == MathMin(MathMax(viewportFill, Q(2, 10)), Q(95, 100))
      safety == Q(9, 10)
      targetRadius ==
        Mul(Mul(MathMax(vp.width, vp.height), Mul(clampedFill, Q(5, 10))), safety)
  IN  IF Greater(maxA, Zero) THEN Div(targetRadius, maxA) ELSE One

\* A faulty variant of AutoScale: the target radius is multiplied by maxA,
\* targetRadius * maxA.
AutoScaleTimesMaxA(vp, maxA, viewportFill) ==
  LET clampedFill == MathMin(MathMax(viewportFill, Q(2, 10)), Q(95, 100))
      safety == Q(9, 10)
      targetRadius ==
        Mul(Mul(MathMin(vp.width, vp.height), Mul(clampedFill, Q(5, 10))), safety)
  IN  IF Greater(maxA, Zero) THEN Mul(targetRadius, maxA) ELSE One

\* The body of the autoScale memo.
AutoScale(vp, maxA, viewportFill) ==
  LET clampedFill == MathMin(MathMax(viewportFill, Q(2, 10)), Q(95, 100))
      safety == Q(9, 10)
      targetRadius ==
        Mul(Mul(MathMin(vp.width, vp.height), Mul(clampedFill, Q(5, 10))), safety)
  IN  IF Greater(maxA, Zero) THEN Div(targetRadius, maxA) ELSE One

\* A faulty variant of AutoScaleDeps: viewport.height is missing from the list.
AutoScaleDepsWidthOnly(ps, pr, vp) == <<vp.width, MaxA(ps), pr.viewportFill>>

\* The dependency list of the autoScale memo.
AutoScaleDeps(ps, pr, vp) == <<vp.width, vp.height, MaxA(ps), pr.viewportFill>>

\* A THREE.BufferGeometry built by the orbitGeometries memo.  The buffer is
\* never written after it is built, so the geometry is held as the values it
\* was built from and PositionAttribute gives its 'position' attribute.
BufferGeometry(p, tiltScale) == [planet |-> p, tiltScale |-> tiltScale]

PositionAttribute(geo) == OrbitPositions(geo.planet, geo.tiltScale)

\* The body of the orbitGeometries memo: one geometry per planet with
\* showOrbit.
OrbitGeometries(ps, tiltScale) ==
  [n \in {ps[i].name : i \in {j \in 1..Len(ps) : ps[j].showOrbit}} |->
     LET p == CHOOSE q \in {ps[i] : i \in 1..Len(ps)} : q.name = n
     IN  BufferGeometry(p, tiltScale)]

\* A faulty variant of OrbitGeometriesDeps: viewportFill is in the list too.
OrbitGeometriesDepsWithFill(ps, pr) == <<ps, pr.tiltScale, pr.viewportFill>>

\* The dependency list of the orbitGeometries memo.
OrbitGeometriesDeps(ps, pr) == <<ps, pr.tiltScale>>

\* A faulty variant of AutoScaleMemo: a recomputation eases from the value
\* of the render before to the new one (half way), so running it again with
\* the same inputs gives another value.
AutoScaleMemoEased(cell, ps, pr, vp) ==
  IF cell.deps = AutoScaleDeps(ps, pr, vp) THEN cell
  ELSE [deps |-> AutoScaleDeps(ps, pr, vp),
        value |-> Mul(Add(cell.value, AutoScale(vp, MaxA(ps), pr.viewportFill)),
                      Q(1, 2))]

\* useMemo: the cell is kept when the dependencies are those of the cell.
AutoScaleMemo(cell, ps, pr, vp) ==
  IF cell.deps = AutoScaleDeps(ps, pr, vp) THEN cell
  ELSE [deps |-> AutoScaleDeps(ps, pr, vp),
        value |-> AutoScale(vp, MaxA(ps), pr.viewportFill)]

OrbitGeometriesMemo(cell, ps, pr) ==
  IF cell.deps = OrbitGeometriesDeps(ps, pr) THEN cell
  ELSE [deps |-> OrbitGeometriesDeps(ps, pr),
        value |-> OrbitGeometries(ps, pr.tiltScale)]

\* const computedScale = scale * autoScale, and what the callback passed to
\* useFrame in this render closes over.
FrameClosure(pr, auto) ==
  [center |-> pr.center, computedScale |-> Mul(pr.scale, auto),
   speedFactor |-> pr.speedFactor, tiltScale |-> pr.tiltScale]

\* A faulty variant of RenderTree: the group of the orbit paths is scaled by
\* autoScale alone, without the global scale prop.
RenderTreeAutoScaleOnly(pr, auto) ==
  [position |-> pr.center, orbitsScale |-> <<auto, auto, auto>>]

\* The transforms in the element tree the render returns: the position of the
\* outer group, which holds the group of the orbit paths and the planet
\* groups, and the scale of the group of the orbit paths.
RenderTree(pr, auto) ==
  LET computedScale == Mul(pr.scale, auto)
  IN  [position |-> pr.center,
       orbitsScale |-> <<computedScale, computedScale, computedScale>>]

\* The world-space position of a planet group with local position v: the
\* group is a child of the outer group, which is neither rotated nor scaled.
PlanetWorldPosition(tree, v) ==
  <<Add(tree.position[1], v[1]), Add(tree.position[2], v[2]),
    Add(tree.position[3], v[3])>>

\* The world-space position of the point pt of an orbit path: the line is a
\* child of the scaled group of the orbit paths, a child of the outer group.
PathWorldPosition(tree, pt) ==
  <<Add(tree.position[1], Mul(tree.orbitsScale[1], pt[1])),
    Add(tree.position[2], Mul(tree.orbitsScale[2], pt[2])),
    Add(tree.position[3], Mul(tree.orbitsScale[3], pt[3]))>>

\* A group as React creates it: at the origin, not rotated.
NewGroup == [position |-> Origin, rotation |-> Origin]

\* A faulty variant of PlanetPosition: the period is taken for half an orbit,
\* progress = ((t * speedFactor) / (p.period * 2)) % 1.
PlanetPositionHalfRate(p, t, f) ==
  LET dir == Nullish(p.direction, One)
      progress == Mod1(Div(Mul(t, f.speedFactor), Mul(p.period, Num(2))))
      theta == Add(Mul(dir, progress), Nullish(p.phase, Zero))
      pos == EllipsePoint(p, f.tiltScale, theta)
  IN  <<Add(f.center[1], Mul(pos[1], f.computedScale)),
        Add(f.center[2], Mul(pos[2], f.computedScale)),
        Add(f.center[3], Mul(pos[3], f.computedScale))>>

\* progress = ((t * speedFactor) / p.period) % 1
Progress(p, t, f) == Mod1(Div(Mul(t, f.speedFactor), p.period))

\* A faulty variant of Theta: the direction turns the phase round as well,
\* theta = dir * (progress * Math.PI * 2 + (p.phase ?? 0)).
ThetaDirectedPhase(p, t, f) ==
  LET dir == Nullish(p.direction, One)
  IN  Mul(dir, Add(Progress(p, t, f), Nullish(p.phase, Zero)))

\* theta = dir * (progress * Math.PI * 2) + (p.phase ?? 0), in turns
Theta(p, t, f) ==
  LET dir == Nullish(p.direction, One)
  IN  Add(Mul(dir, Progress(p, t, f)), Nullish(p.phase, Zero))

\* The position the frame callback computes for planet p at elapsed time t.
PlanetPosition(p, t, f) ==
  LET pos == EllipsePoint(p, f.tiltScale, Theta(p, t, f))
  IN  <<Add(f.center[1], Mul(pos[1], f.computedScale)),
        Add(f.center[2], Mul(pos[2], f.computedScale)),
        Add(f.center[3], Mul(pos[3], f.computedScale))>>

\* group.rotation.y += 0.01
SelfRotation == Q(1, 100)

\* A faulty variant of UpdatePlanet: the body spins the way it orbits,
\* group.rotation.y += 0.01 * (p.direction ?? 1).
UpdatePlanetSpinWithOrbit(refs, p, t, f) ==
  IF p.name \notin DOMAIN refs THEN refs
  ELSE [refs EXCEPT ![p.name] =
          [position |-> PlanetPosition(p, t, f),
           rotation |-> <<@.rotation[1],
                          Add(@.rotation[2],
                              Mul(SelfRotation, Nullish(p.direction, One))),
                          @.rotation[3]>>]]

\* A faulty variant of UpdatePlanet: a group that was never written (its
\* rotation.y is still 0) is only rotated in its first frame and positioned
\* from the next one on.
UpdatePlanetWarmUp(refs, p, t, f) ==
  IF p.name \notin DOMAIN refs THEN refs
  ELSE [refs EXCEPT ![p.name] =
          [position |-> IF @.rotation[2] = Zero THEN @.position
                        ELSE PlanetPosition(p, t, f),
           rotation |-> <<@.rotation[1], Add(@.rotation[2], SelfRotation),
                          @.rotation[3]>>]]

\* A faulty variant of UpdatePlanet: the group moves half way from where it
\* is to the computed position (position.lerp(target, 0.5)).
UpdatePlanetSmoothed(refs, p, t, f) ==
  IF p.name \notin DOMAIN refs THEN refs
  ELSE [refs EXCEPT ![p.name] =
          [position |->
             LET target == PlanetPosition(p, t, f)
             IN  <<Mul(Add(@.position[1], target[1]), Q(1, 2)),
                   Mul(Add(@.position[2], target[2]), Q(1, 2)),
                   Mul(Add(@.position[3], target[3]), Q(1, 2))>>,
           rotation |-> <<@.rotation[1], Add(@.rotation[2], SelfRotation),
                          @.rotation[3]>>]]

\* One iteration of planets.forEach in the frame callback: nothing when the
\* planet has no group registered.
UpdatePlanet(refs, p, t, f) ==
  IF p.name \notin DOMAIN refs THEN refs
  ELSE [refs EXCEPT ![p.name] =
          [position |-> PlanetPosition(p, t, f),
           rotation |-> <<@.rotation[1], Add(@.rotation[2], SelfRotation),
                          @.rotation[3]>>]]

\* A faulty variant of ForEachPlanet: the callback has no `if (!group) return`,
\* so group.position of the first planet with no group throws and the rest of
\* the frame is lost.
RECURSIVE ForEachPlanetAborting(_, _, _, _, _)
ForEachPlanetAborting(refs, ps, i, t, f) ==
  IF i > Len(ps) THEN refs
  ELSE IF ps[i].name \notin DOMAIN refs THEN refs
  ELSE ForEachPlanetAborting(UpdatePlanet(refs, ps[i], t, f), ps, i + 1, t, f)

\* planets.forEach from index i on.
RECURSIVE ForEachPlanet(_, _, _, _, _)
ForEachPlanet(refs, ps, i, t, f) ==
  IF i > Len(ps) THEN refs
  ELSE ForEachPlanet(UpdatePlanet(refs, ps[i], t, f), ps, i + 1, t, f)

\* clock.getElapsedTime() at the k-th time of the grid.
ElapsedTime(k) == Mul(Num(k), TimeStep)

\* The sampler when no path is being sampled step by step.
Idle == [pc |-> "idle"]

\* The state after the first render of the component with planet list ps,
\* props pr and viewport vp: no group is attached yet, no frame has run.
InitWith(ps, pr, vp) ==
  /\ planets = ps
  /\ props = pr
  /\ viewport = vp
  /\ autoScale = [deps |-> AutoScaleDeps(ps, pr, vp),
                  value |-> AutoScale(vp, MaxA(ps), pr.viewportFill)]
  /\ orbitGeometries = [deps |-> OrbitGeometriesDeps(ps, pr),
                        value |-> OrbitGeometries(ps, pr.tiltScale)]
  /\ frame = FrameClosure(pr, autoScale.value)
  /\ rendered = RenderTree(pr, autoScale.value)
  /\ planetRefs = <<>>
  /\ mounted = {}
  /\ clock = -1
  /\ renders = 0
  /\ ticks = <<>>

Init ==
  /\ \E ps \in Systems :
       InitWith(ps, DefaultProps, [width |-> Num(800), height |-> Num(600)])
  /\ sampler = Idle
  /\ EyesFirstRender

\* A re-render of the component with props pr and viewport vp: the memos are
\* re-evaluated and the frame callback is replaced.  The ref callbacks of the
\* attached groups run again with the same groups, which leaves the registry
\* as it is.
Render(pr, vp) ==
  /\ renders < MaxRenders
  /\ renders' = renders + 1
  /\ props' = pr
  /\ viewport' = vp
  /\ autoScale' = AutoScaleMemo(autoScale, planets, pr, vp)
  /\ orbitGeometries' = OrbitGeometriesMemo(orbitGeometries, planets, pr)
  /\ frame' = FrameClosure(pr, autoScale'.value)
  /\ rendered' = RenderTree(pr, autoScale'.value)
  /\ UNCHANGED <<planets, planetRefs, mounted, clock, ticks, sampler,
                 cyberneticEyes>>

\* The viewport changes size: useThree() re-renders the component.
Resize ==
  \E vp \in Viewports \ {viewport} : Render(props, vp)

\* The parent renders the component with other props.
SetProps ==
  \E pr \in PropsSet \ {props} : Render(pr, viewport)

\* React creates the group of planet n (once: the planet list and the keys
\* of the groups never change): ref callback with the new group.
Attach ==
  \E n \in Names(planets) \ DOMAIN planetRefs :
    /\ planetRefs' = [m \in DOMAIN planetRefs \cup {n} |->
                        IF m = n THEN NewGroup ELSE planetRefs[m]]
    /\ mounted' = mounted \cup {n}
    /\ UNCHANGED <<planets, props, viewport, autoScale, orbitGeometries, frame,
                   rendered, clock, renders, ticks, sampler,
                   cyberneticEyes>>

\* React removes the group of planet n: ref callback with null, which the
\* callback ignores (if (g) ...).  The planet list and the keys of the groups
\* never change, so the component as it is used removes no group while it
\* is mounted: Detach is a step of SpecRegistry only.
Detach ==
  \E n \in mounted :
    /\ mounted' = mounted \ {n}
    /\ UNCHANGED <<planets, props, viewport, autoScale, orbitGeometries, frame,
                   rendered, planetRefs, clock, renders, ticks, sampler,
                   cyberneticEyes>>

\* What the log keeps of the tick before the latest one.
Previous(log) ==
  IF Len(log) = 0 THEN <<>>
  ELSE <<[k |-> log[1].k, frame |-> log[1].frame, after |-> log[1].after]>>

\* What a frame tick at time index k leaves in the log: the time, the closure,
\* the viewport, the props and the rendered transforms it ran under, the
\* groups in the scene at the time, the registry before and after it, and
\* the tick before it.
TickRecord(k, after) ==
  [k |-> k, t |-> ElapsedTime(k), frame |-> frame, viewport |-> viewport,
   props |-> props, rendered |-> rendered, mounted |-> mounted,
   before |-> planetRefs, after |-> after, previous |-> Previous(ticks)]

\* The host runs the frame callback with a later elapsed time.
Tick ==
  \E k \in (clock + 1)..MaxTick :
    /\ clock' = k
    /\ planetRefs' = ForEachPlanet(planetRefs, planets, 1, ElapsedTime(k), frame)
    /\ ticks' = <<TickRecord(k, planetRefs')>>
    /\ UNCHANGED <<planets, props, viewport, autoScale, orbitGeometries, frame,
                   rendered, mounted, renders, sampler,
                   cyberneticEyes>>

Next == Resize \/ SetProps \/ Attach \/ Tick

Spec == Init /\ [][Next]_vars

\* The component with groups removed while it is mounted.
NextRegistry == Next \/ Detach

SpecRegistry == Init /\ [][NextRegistry]_vars

----------------------------------------------------------------------------
(* The component run with a planet list of ConfigSystems *)

InitConfig ==
  /\ \E ps \in ConfigSystems :
       InitWith(ps, DefaultProps, [width |-> Num(800), height |-> Num(600)])
  /\ sampler = Idle
  /\ EyesFirstRender

SpecConfig == InitConfig /\ [][Next]_vars

----------------------------------------------------------------------------
(* The path sampler, one loop iteration per step *)

\* The callback of planets.forEach in the orbitGeometries memo entered for
\* planet p: i and positions are the loop's variables, geos the entry of p in
\* the memo's result once it is set.
SamplerStart(p, tiltScale) ==
  [pc |-> "loop", planet |-> p, tiltScale |-> tiltScale, i |-> 0,
   positions |-> <<>>, geos |-> <<>>]

InitPath ==
  /\ InitWith(<<>>, DefaultProps, [width |-> Num(800), height |-> Num(600)])
  /\ sampler \in {SamplerStart(p, ts) : p \in {Circ, Outer, Ecc, Hidden, Quarter},
                                         ts \in TiltScales}
  /\ EyesFirstRender

\* if (!p.showOrbit) return
SkipOrbit ==
  /\ sampler.pc = "loop"
  /\ ~sampler.planet.showOrbit
  /\ sampler' = [sampler EXCEPT !.pc = "done"]
  /\ UNCHANGED <<component, cyberneticEyes>>

\* One iteration of the loop: positions.push(v.x, v.y, v.z); i++
PushPoint ==
  /\ sampler.pc = "loop"
  /\ sampler.planet.showOrbit
  /\ LoopCondition(sampler.i)
  /\ sampler' =
       [sampler EXCEPT
          !.positions = @ \o EllipsePoint(sampler.planet, sampler.tiltScale,
                                          Q(sampler.i, segments)),
          !.i = @ + 1]
  /\ UNCHANGED <<component, cyberneticEyes>>

\* After the loop: geo.setAttribute('position', ...); geos[p.name] = geo
SetAttribute ==
  /\ sampler.pc = "loop"
  /\ sampler.planet.showOrbit
  /\ ~LoopCondition(sampler.i)
  /\ sampler' =
       [sampler EXCEPT
          !.geos = [n \in {sampler.planet.name} |-> sampler.positions],
          !.pc = "done"]
  /\ UNCHANGED <<component, cyberneticEyes>>

NextPath == SkipOrbit \/ PushPoint \/ SetAttribute

SpecPath == InitPath /\ [][NextPath]_vars

----------------------------------------------------------------------------
(* The CyberneticEyes component: the blink *)

\* Values Math.random() gives: it returns a number of [0, 1).
RandomValues == {Zero, Q(1, 2), Q(3, 4)}

\* The time that passes between two events of the host: 150 ms or 3 s.
TimeAdvances == {Q(3, 20), Num(3)}

\* Frames run while the time has advanced at most MaxAdvances times; the time
\* advances once more after that, so that every timeout set comes due.
MaxAdvances == 3

\* setTimeout(..., 150): the delay in seconds.
ResetDelay == Q(3, 20)

\* 2 + Math.random() * 3, for the value r of Math.random()
BlinkThreshold(r) == Add(Num(2), Mul(r, Num(3)))

\* Math.random() > 0.5 ? 0.1 : 1, for the value r of Math.random()
EyeScale(r) == IF Greater(r, Q(1, 2)) THEN Q(1, 10) ELSE One

\* The state a render gets from useState: the last value queued by the
\* setter since the render before, the state of the render before if none.
UseState(state, queue) == IF queue = <<>> THEN state ELSE queue[Len(queue)]

InitEyes ==
  /\ InitWith(<<>>, DefaultProps, [width |-> Num(800), height |-> Num(600)])
  /\ sampler = Idle
  /\ EyesFirstRender

\* Time passes.
Advance ==
  /\ advances <= MaxAdvances
  /\ \E d \in TimeAdvances : now' = Add(now, d)
  /\ advances' = advances + 1
  /\ UNCHANGED <<component, sampler, blinkState, lastBlink, blinkStateQueue,
                 lastBlinkQueue, timeouts, elapsedTime, blinks>>

\* The host runs the useFrame callback registered by the latest render, which
\* closes over the lastBlink of that render.  The setters queue their values
\* for the next render; setTimeout queues the reset.
EyesFrame ==
  /\ advances <= MaxAdvances
  /\ Greater(now, elapsedTime)
  /\ elapsedTime' = now
  /\ \E r1, r2, r3 \in RandomValues :
       LET time == now
       IN  IF Greater(Add(time, Neg(lastBlink)), BlinkThreshold(r1))
           THEN /\ blinkStateQueue' =
                     Append(blinkStateQueue,
                            [left |-> EyeScale(r2), right |-> EyeScale(r3)])
                /\ lastBlinkQueue' = Append(lastBlinkQueue, time)
                /\ timeouts' = Append(timeouts, Add(now, ResetDelay))
                /\ blinks' = Append(blinks, time)
           ELSE UNCHANGED <<blinkStateQueue, lastBlinkQueue, timeouts, blinks>>
  /\ UNCHANGED <<component, sampler, blinkState, lastBlink, now, advances>>

\* The earliest timeout has come due and its callback runs:
\* setBlinkState({ left: 1, right: 1 }).  All timeouts have the same delay, so
\* they run in the order they were set.
EyesTimeout ==
  /\ timeouts # <<>>
  /\ ~Less(now, Head(timeouts))
  /\ timeouts' = Tail(timeouts)
  /\ blinkStateQueue' = Append(blinkStateQueue, [left |-> One, right |-> One])
  /\ UNCHANGED <<component, sampler, blinkState, lastBlink, lastBlinkQueue,
                 now, elapsedTime, advances, blinks>>

\* React renders the component with the queued state updates and commits:
\* the eyes get the scale of the new blinkState and the useFrame callback of
\* this render replaces the one before.
EyesRender ==
  /\ blinkStateQueue # <<>> \/ lastBlinkQueue # <<>>
  /\ blinkState' = UseState(blinkState, blinkStateQueue)
  /\ lastBlink' = UseState(lastBlink, lastBlinkQueue)
  /\ blinkStateQueue' = <<>>
  /\ lastBlinkQueue' = <<>>
  /\ UNCHANGED <<component, sampler, timeouts, now, elapsedTime, advances,
                 blinks>>

NextEyes == Advance \/ EyesFrame \/ EyesTimeout \/ EyesRender

\* Time keeps passing, a timeout that has come due runs, and React renders
\* the updates queued; nothing obliges the host to run a frame.
SpecEyes ==
  /\ InitEyes
  /\ [][NextEyes]_vars
  /\ WF_vars(Advance)
  /\ WF_vars(EyesTimeout)
  /\ WF_vars(EyesRender)

----------------------------------------------------------------------------
(* Properties *)

\* The planet of the list with name n.
Body(n) == CHOOSE p \in {planets[i] : i \in 1..Len(planets)} : p.name = n

\* The latest frame tick and the one before it.
LastTick == ticks[1]
TickBefore == ticks[1].previous[1]

\* The registry with a never-written group for every planet.
AllAttached == [n \in Names(planets) |-> NewGroup]

\* x limited to [lo, hi]
Clamp(x, lo, hi) == IF Less(x, lo) THEN lo ELSE IF Greater(x, hi) THEN hi ELSE x

\* min(w, h) * clamp(fill, 0.2, 0.95) * 0.5 * 0.9 / maxA when maxA > 0, else 1
FitScale(w, h, fill, maxA) ==
  IF Greater(maxA, Zero)
  THEN Div(Mul(Mul(Mul(IF Less(h, w) THEN h ELSE w,
                       Clamp(fill, Q(1, 5), Q(19, 20))),
                   Q(1, 2)),
               Q(9, 10)),
           maxA)
  ELSE One

\* 0 <= e < 1, a > 0, period > 0
ValidBody(p) ==
  /\ ~Less(p.e, Zero) /\ Less(p.e, One)
  /\ Greater(p.a, Zero)
  /\ Greater(p.period, Zero)

\* C1: in every state, whatever the viewport, the viewportFill and the largest
\* semi-major axis are, the auto-fit scale held by the autoScale memo is
\* min(width, height) * clamp(viewportFill, 0.2, 0.95) * 0.5 * 0.9 / maxA when
\* maxA > 0, and 1 when maxA is not > 0.
C1_AutoScaleFormula ==
  autoScale.value =
    FitScale(viewport.width, viewport.height, props.viewportFill, MaxA(planets))

\* C1 happens: after a re-render with a viewportFill above the clamp and
\* maxA = 6.4, the scale is 600 * 0.95 * 0.5 * 0.9 / 6.4.
C1_Witness ==
  /\ renders > 0
  /\ props.viewportFill = One
  /\ MaxA(planets) = Q(32, 5)
  /\ viewport = [width |-> Num(800), height |-> Num(600)]
  /\ autoScale.value = Q(2565, 64)

C3_DegenerateViewportSafeScale ==
  /\ (~Greater(viewport.width, Zero) \/ ~Greater(viewport.height, Zero)) =>
       IsFinite(autoScale.value) /\ Greater(autoScale.value, Zero)
  /\ ticks # <<>> =>
       IsFinite(LastTick.frame.computedScale)
         /\ Greater(LastTick.frame.computedScale, Zero)

\* C3, what the code does: with a viewport of width 0 the scale is 0 and a
\* frame tick puts a body at the center.
C3_TickWritesWithZeroScale ==
  /\ ticks # <<>>
  /\ LastTick.viewport.width = Zero
  /\ LastTick.frame.computedScale = Zero
  /\ \E n \in DOMAIN LastTick.before :
       LastTick.after[n].position = LastTick.frame.center

C5_TickWritesExactlyBodiesWithHandle ==
  ticks # <<>> =>
    LET r == LastTick
    IN  /\ DOMAIN r.after = DOMAIN r.before
        /\ {n \in DOMAIN r.after : r.after[n] # r.before[n]} = DOMAIN r.before
        /\ \A i \in 1..Len(planets) :
             LET p == planets[i]
             IN  IF p.name \in DOMAIN r.before
                 THEN /\ r.after[p.name].position = PlanetPosition(p, r.t, r.frame)
                      /\ r.after[p.name].rotation =
                           <<r.before[p.name].rotation[1],
                             Add(r.before[p.name].rotation[2], Q(1, 100)),
                             r.before[p.name].rotation[3]>>
                 ELSE p.name \notin DOMAIN r.after

\* C5 happens: the first body of the list has no handle, the second has one
\* and is written by the tick.
C5_Witness ==
  /\ ticks # <<>>
  /\ Len(planets) = 2
  /\ planets[1].name \notin DOMAIN LastTick.before
  /\ planets[2].name \in DOMAIN LastTick.before
  /\ LastTick.after[planets[2].name].position # Origin
  /\ LastTick.after[planets[2].name].rotation[2] = Q(1, 100)

\* C6: a body that had no handle at one tick and has one at the next tick is
\* written by that next tick, with the position of that tick's elapsed time:
\* the position it gets in the run where every handle was attached before the
\* two ticks.
C6_SelfHealsNextTick ==
  (ticks # <<>> /\ LastTick.previous # <<>>) =>
    LET r == LastTick
        prev == TickBefore
        never == ForEachPlanet(
                   ForEachPlanet(AllAttached, planets, 1, ElapsedTime(prev.k),
                                 prev.frame),
                   planets, 1, r.t, r.frame)
    IN  \A n \in DOMAIN r.before \ DOMAIN prev.after :
          /\ r.after[n].position = never[n].position
          /\ r.after[n].position = PlanetPosition(Body(n), r.t, r.frame)

\* C6 happens: a body absent at a tick is attached and written by the next
\* tick, away from where a new group is.
C6_Witness ==
  /\ ticks # <<>>
  /\ LastTick.previous # <<>>
  /\ \E n \in DOMAIN LastTick.before \ DOMAIN TickBefore.after :
       /\ LastTick.before[n] = NewGroup
       /\ LastTick.after[n].position # Origin
  /\ DOMAIN TickBefore.after # {}

\* C7: the position a tick writes for a body is the one a first tick of a run
\* without history writes (every group new, no earlier tick, resize or absent
\* handle) from the same elements, elapsed time, speedFactor, tiltScale, center
\* and scale; the rotation about Y alone carries the number of earlier writes.
C7_PositionDependsOnlyOnInputs ==
  ticks # <<>> =>
    LET r == LastTick
        inputs == [center |-> r.props.center,
                   computedScale |-> r.frame.computedScale,
                   speedFactor |-> r.props.speedFactor,
                   tiltScale |-> r.props.tiltScale]
        fresh == ForEachPlanet(AllAttached, planets, 1, r.t, inputs)
    IN  \A n \in DOMAIN r.before :
          /\ r.after[n].position = fresh[n].position
          /\ r.after[n].rotation[2] = Add(r.before[n].rotation[2], fresh[n].rotation[2])

\* C7 happens: a body written for the second time, after a re-render, at a
\* position other than its earlier one; its rotation shows the two writes.
C7_Witness ==
  /\ ticks # <<>>
  /\ LastTick.previous # <<>>
  /\ renders > 0
  /\ \E n \in DOMAIN TickBefore.after :
       /\ LastTick.after[n].rotation[2] = Q(2, 100)
       /\ LastTick.after[n].position # TickBefore.after[n].position
       /\ TickBefore.after[n].position # Origin

\* C8: for a body with phase 0 and period P, with speedFactor 1 and the same
\* scale (and center and tiltScale), the position written at elapsed time
\* t + P is the position written at elapsed time t.
C8_PeriodicInElapsedTime ==
  (ticks # <<>> /\ LastTick.previous # <<>>) =>
    LET r == LastTick
        prev == TickBefore
    IN  \A i \in 1..Len(planets) :
          LET p == planets[i]
          IN  (/\ p.name \in DOMAIN prev.after
               /\ Nullish(p.phase, Zero) = Zero
               /\ r.frame.speedFactor = One
               /\ r.frame = prev.frame
               /\ r.t = Add(ElapsedTime(prev.k), p.period))
              => r.after[p.name].position = prev.after[p.name].position

\* C8 happens: an eccentric, tilted body of period 5 and phase 0 is written at
\* t = 0 and then at t = 5 under speedFactor 1.
C8_Witness ==
  /\ ticks # <<>>
  /\ LastTick.previous # <<>>
  /\ TickBefore.k = 0
  /\ LastTick.t = Num(5)
  /\ LastTick.frame = TickBefore.frame
  /\ LastTick.frame.speedFactor = One
  /\ "Hidden" \in DOMAIN TickBefore.after
  /\ LastTick.after["Hidden"].position # LastTick.frame.center

Point(positions, j) ==
  <<positions[3 * j + 1], positions[3 * j + 2], positions[3 * j + 3]>>

\* C10: the sampling loop has pushed three coordinates per iteration, and the
\* path it ends with has segments + 1 = 257 points (771 coordinates), the j-th
\* of them the ellipse point at the angle j / segments of a turn, so in the
\* order of increasing angle from 0 to 2 PI, the first and the last the same
\* point; it is the position attribute of the geometry the memo holds.
C10_PathSampler ==
  sampler.pc # "idle" =>
    /\ Len(sampler.positions) = 3 * sampler.i
    /\ (sampler.pc = "done" /\ sampler.planet.showOrbit) =>
         LET pos == sampler.geos[sampler.planet.name]
             geo == BufferGeometry(sampler.planet, sampler.tiltScale)
         IN  /\ Len(pos) = 3 * (segments + 1)
             /\ Len(pos) = 771
             /\ \A j \in 0..segments :
                  Point(pos, j) =
                    EllipsePoint(sampler.planet, sampler.tiltScale, Q(j, segments))
             /\ Point(pos, 0) = Point(pos, segments)
             /\ \A k \in 1..Len(pos) : pos[k] = PositionAttribute(geo)[k]

\* C10 happens: the path of the eccentric, tilted body is complete, and its
\* points are not all the same point.
C10_Witness ==
  /\ sampler.pc = "done"
  /\ sampler.planet = Ecc
  /\ Len(sampler.geos["Ecc"]) = 771
  /\ Point(sampler.geos["Ecc"], 0) # Point(sampler.geos["Ecc"], 64)

\* The planar ellipse point of planet p at angle th: (a cos th, 0, b sin th).
PlanarPoint(p, th) ==
  <<Mul(p.a, MathCos(th)), Zero, Mul(SemiMinor(p), MathSin(th))>>

\* v rotated about Y by argOfPeriapsis, then about X by inclination *
\* tiltScale, then about Y by lonOfNode, then about Z by the roll.
RotatedPeriapsisFirst(p, tiltScale, v) ==
  ApplyMatrix4(
    ApplyMatrix4(
      ApplyMatrix4(
        ApplyMatrix4(v, MakeRotationY(Nullish(p.argOfPeriapsis, Zero))),
        MakeRotationX(Mul(p.inclination, tiltScale))),
      MakeRotationY(p.lonOfNode)),
    MakeRotationZ(OrientationRoll(p)))

\* v rotated about Z by the roll, then about Y by lonOfNode, then about X by
\* inclination * tiltScale, then about Y by argOfPeriapsis.
RotatedRollFirst(p, tiltScale, v) ==
  ApplyMatrix4(
    ApplyMatrix4(
      ApplyMatrix4(
        ApplyMatrix4(v, MakeRotationZ(OrientationRoll(p))),
        MakeRotationY(p.lonOfNode)),
      MakeRotationX(Mul(p.inclination, tiltScale))),
    MakeRotationY(Nullish(p.argOfPeriapsis, Zero)))

\* C11 (as the specification states it): every point the sampling loop pushes
\* is the planar ellipse point rotated about Y by argOfPeriapsis first, then
\* about X by inclination * tiltScale, then about Y by lonOfNode, and about Z
\* by the roll last.
C11_RotationOrder ==
  (sampler.pc # "idle" /\ sampler.i > 0) =>
    Point(sampler.positions, sampler.i - 1) =
      RotatedPeriapsisFirst(sampler.planet, sampler.tiltScale,
                            PlanarPoint(sampler.planet,
                                        Q(sampler.i - 1, segments)))

\* C11, what the code does: for the body with all four angles a quarter turn
\* the first point pushed is (2, 0, 0), the planar point (2, 0, 0) rotated by
\* the roll first and by argOfPeriapsis last; rotated in the stated order it
\* is (-2, 0, 0).
C11_PointRotatedRollFirst ==
  /\ sampler.pc # "idle"
  /\ sampler.planet = Quarter
  /\ sampler.tiltScale = One
  /\ sampler.i = 1
  /\ Point(sampler.positions, 0) = <<Num(2), Zero, Zero>>
  /\ Point(sampler.positions, 0) =
       RotatedRollFirst(Quarter, One, PlanarPoint(Quarter, Zero))
  /\ RotatedPeriapsisFirst(Quarter, One, PlanarPoint(Quarter, Zero)) =
       <<Num(-2), Zero, Zero>>

\* The angle th (in turns) is a sample angle of the path: a multiple of
\* 1 / segments.
IsSampleAngle(th) == IsFinite(th) /\ (th[1] * segments) % th[2] = 0

\* The index in 0 .. segments - 1 of the sample angle equal to th mod 2 PI.
SampleIndex(th) == ((th[1] * segments) \div th[2]) % segments

\* C12: when a tick writes a body whose orbit is drawn at an angle theta that
\* is (mod 2 PI) the j-th sample angle of its path, the position written is
\* center + (the j-th point of the path built with the tick's tiltScale) *
\* computedScale: evaluator and sampler apply the same ellipse formula and the
\* same rotations.
C12_EvaluatorOnPath ==
  ticks # <<>> =>
    LET r == LastTick
    IN  \A n \in DOMAIN r.before :
          LET p == Body(n)
              th == Theta(p, r.t, r.frame)
          IN  (p.showOrbit /\ IsSampleAngle(th)) =>
                LET path == PositionAttribute(
                              OrbitGeometries(planets, r.props.tiltScale)[n])
                    pt == Point(path, SampleIndex(th))
                IN  r.after[n].position =
                      <<Add(r.frame.center[1], Mul(pt[1], r.frame.computedScale)),
                        Add(r.frame.center[2], Mul(pt[2], r.frame.computedScale)),
                        Add(r.frame.center[3], Mul(pt[3], r.frame.computedScale))>>

\* C12 happens: the eccentric, tilted, rolled body is written at the point of
\* sample 160 of its path (theta = -5/8 + 1/4 = -3/8 turn) under tiltScale 3.5.
C12_Witness ==
  /\ ticks # <<>>
  /\ "Ecc" \in DOMAIN LastTick.before
  /\ LastTick.props = DefaultProps
  /\ LastTick.t = Q(5, 2)
  /\ Theta(Ecc, LastTick.t, LastTick.frame) = Q(-3, 8)
  /\ SampleIndex(Theta(Ecc, LastTick.t, LastTick.frame)) = 160
  /\ LastTick.after["Ecc"].position # LastTick.frame.center

\* min(w, h) * clamp(fill, 0.2, 0.95) * 0.45
TargetRadius(w, h, fill) ==
  Mul(Mul(IF Less(h, w) THEN h ELSE w, Clamp(fill, Q(1, 5), Q(19, 20))),
      Q(45, 100))

\* The precision of UpperRatio: 1 / 1024.
RatioResolution == 2 ^ 10

\* For a finite x and r > 0: an integer u with |x| / r <= u / RatioResolution,
\* the least one when |x| / r is written with numbers below 2 ^ 20 (the
\* numbers are cut to 32 bits otherwise).
UpperRatio(x, r) ==
  LET q == Div(x, r)
      n == AbsInt(q[1])
      d == q[2]
  IN  IF n <= 2 ^ 20 /\ d <= 2 ^ 20
      THEN (n * RatioResolution + d - 1) \div d
      ELSE IF d <= 2 ^ 20 THEN 2 * RatioResolution
      ELSE LET n2 == (n \div RatioResolution) + 1
               d2 == d \div RatioResolution
           IN  (n2 * RatioResolution + d2 - 1) \div d2

\* The point v is within distance r of the point c (decided on the upper
\* bounds UpperRatio of the three coordinate differences).
WithinDistance(v, c, r) ==
  LET u(i) == UpperRatio(Add(v[i], Neg(c[i])), r)
  IN  u(1) * u(1) + u(2) * u(2) + u(3) * u(3) <= RatioResolution * RatioResolution

AxisValues == {Zero, Q(1, 100), Q(1, 2), One, Num(3), Q(32, 5), Num(10)}

\* Math.min(vp.width, vp.height)
MinDimension(vp) == IF Less(vp.height, vp.width) THEN vp.height ELSE vp.width

C15_PathsChangeOnlyWithTiltScale ==
  /\ [](orbitGeometries.value = OrbitGeometries(planets, props.tiltScale))
  /\ [][props'.tiltScale = props.tiltScale => orbitGeometries' = orbitGeometries]_vars

\* C15 happens: after a resize and a frame tick under the scale of the new
\* viewport the paths are those of the first render.
C15_Witness ==
  /\ ticks # <<>>
  /\ LastTick.viewport = [width |-> Num(800), height |-> Num(400)]
  /\ LastTick.frame.computedScale = Q(315, 16)
  /\ DOMAIN LastTick.before # {}
  /\ DOMAIN orbitGeometries.value # {}
  /\ orbitGeometries.value = OrbitGeometries(planets, DefaultProps.tiltScale)

\* C16: the group of the orbit paths always has the scale scale * autoScale of
\* the current props and viewport on all three axes, the computedScale of the
\* frame callback in force; and each coordinate a tick writes is center + the
\* unscaled rotated ellipse point times the scale that group has on that axis
\* when the tick runs.
C16_OneScaleForBodiesAndPaths ==
  /\ LET s == Mul(props.scale,
                  FitScale(viewport.width, viewport.height, props.viewportFill,
                           MaxA(planets)))
     IN  rendered.orbitsScale = <<s, s, s>> /\ frame.computedScale = s
  /\ ticks # <<>> =>
       LET r == LastTick
       IN  \A n \in DOMAIN r.before :
             LET pt == EllipsePoint(Body(n), r.props.tiltScale,
                                    Theta(Body(n), r.t, r.frame))
             IN  \A i \in 1..3 :
                   r.after[n].position[i] =
                     Add(r.props.center[i], Mul(pt[i], r.rendered.orbitsScale[i]))

\* C16 happens: after a change of the global scale prop to 2 a tick writes a
\* body away from the center with the scale of the path group, twice the
\* auto-fit scale.
C16_Witness ==
  /\ ticks # <<>>
  /\ renders > 0
  /\ LastTick.props.scale = Num(2)
  /\ LastTick.rendered.orbitsScale[1] = Mul(Num(2), autoScale.value)
  /\ LastTick.rendered.orbitsScale[1] = LastTick.frame.computedScale
  /\ \E n \in DOMAIN LastTick.before :
       LastTick.after[n].position # LastTick.props.center

\* C17 (as the specification states it): the world-space position of every
\* body a tick writes is center + (rotated ellipse point * auto-fit scale *
\* global scale), the center added once; so a body whose orbit is drawn, at
\* an angle that is a sample angle of its path, is at the world-space position
\* of that path point.
C17_CenterAddedOnce ==
  ticks # <<>> =>
    LET r == LastTick
    IN  \A n \in DOMAIN r.before :
          LET p == Body(n)
              th == Theta(p, r.t, r.frame)
              pt == EllipsePoint(p, r.props.tiltScale, th)
              world == PlanetWorldPosition(r.rendered, r.after[n].position)
          IN  /\ \A i \in 1..3 :
                   world[i] =
                     Add(r.props.center[i],
                         Mul(pt[i], r.frame.computedScale))
              /\ (p.showOrbit /\ IsSampleAngle(th)) =>
                   world =
                     PathWorldPosition(
                       r.rendered,
                       Point(PositionAttribute(
                               OrbitGeometries(planets, r.props.tiltScale)[n]),
                             SampleIndex(th)))

\* C17, what the code does: with the center (1, -2, 1/2) the tick writes
\* center + point * scale as the position of the planet group inside the
\* outer group, which is itself at center: the body is in world space at the
\* position of its path point plus the center once more.
C17_CenterAddedTwice ==
  /\ ticks # <<>>
  /\ LastTick.props.center = <<One, Num(-2), Q(1, 2)>>
  /\ \E n \in DOMAIN LastTick.before :
       LET p == Body(n)
           th == Theta(p, LastTick.t, LastTick.frame)
           onPath == PathWorldPosition(
                       LastTick.rendered,
                       Point(PositionAttribute(
                               OrbitGeometries(planets, LastTick.props.tiltScale)[n]),
                             SampleIndex(th)))
       IN  /\ p.showOrbit /\ IsSampleAngle(th)
           /\ PlanetWorldPosition(LastTick.rendered, LastTick.after[n].position) =
                <<Add(onPath[1], One), Add(onPath[2], Num(-2)),
                  Add(onPath[3], Q(1, 2))>>

\* C18 (as the specification states it): at every tick, for every body,
\* every elapsed time and every value of the speedFactor prop, the progress
\* ((t * speedFactor) / period) mod 1 is a value in [0, 1).
C18_ProgressInUnitInterval ==
  ticks # <<>> =>
    \A i \in 1..Len(planets) :
      LET progress == Progress(planets[i], LastTick.t, LastTick.frame)
      IN  /\ IsFinite(progress)
          /\ ~Less(progress, Zero)
          /\ Less(progress, One)

\* C18, what the code does: the remainder operator keeps the sign of the
\* dividend, so with speedFactor -1 at elapsed time 5/2 the progress of a body
\* of period 10 is -1/4, and the body itself is written at the angle -1/4 turn.
C18_NegativeProgress ==
  /\ ticks # <<>>
  /\ LastTick.frame.speedFactor = Num(-1)
  /\ LastTick.t = Q(5, 2)
  /\ \E n \in DOMAIN LastTick.before :
       /\ Body(n).period = Num(10)
       /\ Progress(Body(n), LastTick.t, LastTick.frame) = Q(-1, 4)
       /\ Theta(Body(n), LastTick.t, LastTick.frame) = Q(-1, 4)
       /\ LastTick.after[n].position =
            PlanetPosition(Body(n), LastTick.t, LastTick.frame)

\* rotation r after one more self-rotation increment.
Spun(r) == <<r[1], Add(r[2], SelfRotation), r[3]>>

\* C19: a frame tick adds exactly 0.01 to rotation.y of every body that has a
\* handle and leaves its rotation about x and z as it is, whatever the elapsed
\* time, the time since the tick before and the orbital position; no other
\* step changes the rotation of a handle, and a new handle starts at the
\* initial rotation: so the rotation of a handle is its initial rotation plus
\* 0.01 times the number of ticks it was present at (over the last two ticks:
\* plus 0.02 when it was present at both, at most 0.01 * the number of ticks
\* in all).
C19_SelfRotationPerTick ==
  /\ [](/\ \A n \in DOMAIN planetRefs :
             /\ planetRefs[n].rotation[1] = NewGroup.rotation[1]
             /\ planetRefs[n].rotation[3] = NewGroup.rotation[3]
             /\ \E j \in 0..(clock + 1) :
                  planetRefs[n].rotation[2] =
                    Add(NewGroup.rotation[2], Mul(Num(j), SelfRotation))
        /\ ticks # <<>> =>
             \A n \in DOMAIN LastTick.before :
               /\ LastTick.after[n].rotation = Spun(LastTick.before[n].rotation)
               /\ (LastTick.previous # <<>> /\ n \in DOMAIN TickBefore.after) =>
                    LastTick.after[n].rotation =
                      Spun(TickBefore.after[n].rotation))
  /\ [][/\ clock' # clock =>
             \A n \in DOMAIN planetRefs :
               planetRefs'[n].rotation = Spun(planetRefs[n].rotation)
        /\ clock' = clock =>
             \A n \in DOMAIN planetRefs :
               planetRefs'[n].rotation = planetRefs[n].rotation
        /\ \A n \in DOMAIN planetRefs' \ DOMAIN planetRefs :
             planetRefs'[n].rotation = NewGroup.rotation]_vars

\* C19 happens: two ticks 5 seconds apart with one body present at both
\* (rotation.y 0.02, moved by the second tick) and another attached in between
\* (rotation.y 0.01).
C19_Witness ==
  /\ ticks # <<>>
  /\ LastTick.previous # <<>>
  /\ LastTick.k = 2
  /\ TickBefore.k = 0
  /\ \E n, m \in DOMAIN planetRefs :
       /\ n \in DOMAIN TickBefore.after
       /\ m \notin DOMAIN TickBefore.after
       /\ planetRefs[n].rotation = <<Zero, Q(2, 100), Zero>>
       /\ planetRefs[m].rotation = <<Zero, Q(1, 100), Zero>>
       /\ planetRefs[n].position # TickBefore.after[n].position

\* C20: recomputing the auto-fit scale or the orbit paths is idempotent and
\* free of side effects: in every state the memoised scale and paths are the
\* ones a fresh computation from the current inputs gives (whatever was
\* computed before), so computing them again with unchanged inputs changes
\* neither; and a render, which is where they are recomputed, changes no
\* handle's position or rotation, nor the handle registry, the body
\* configuration or the record of the ticks, also between two ticks, and
\* leaves every path as it is when tiltScale is unchanged; the points of a
\* path held (here those at 0, 1/4, 5/8 and 1 turn) are the ellipse points
\* of the current inputs.
C20_RecomputationIdempotentAndPure ==
  /\ [](/\ autoScale =
             [deps |-> AutoScaleDeps(planets, props, viewport),
              value |-> AutoScale(viewport, MaxA(planets), props.viewportFill)]
        /\ AutoScaleMemo(autoScale, planets, props, viewport) = autoScale
        /\ orbitGeometries =
             [deps |-> OrbitGeometriesDeps(planets, props),
              value |-> OrbitGeometries(planets, props.tiltScale)]
        /\ OrbitGeometriesMemo(orbitGeometries, planets, props) = orbitGeometries
        /\ \A n \in DOMAIN orbitGeometries.value :
             \A j \in {0, 64, 160, segments} :
               Point(PositionAttribute(orbitGeometries.value[n]), j) =
                 EllipsePoint(Body(n), props.tiltScale, Q(j, segments)))
  /\ [][renders' # renders =>
          /\ planetRefs' = planetRefs
          /\ mounted' = mounted
          /\ planets' = planets
          /\ ticks' = ticks
          /\ clock' = clock
          /\ props'.tiltScale = props.tiltScale =>
               orbitGeometries'.value = orbitGeometries.value]_vars

\* C20 happens: a resize between two ticks recomputed the scale (the two
\* ticks ran under different scales) and a body written by both ticks has the
\* rotation of two ticks and the position of the second.
C20_Witness ==
  /\ ticks # <<>>
  /\ LastTick.previous # <<>>
  /\ renders > 0
  /\ LastTick.viewport = [width |-> Num(800), height |-> Num(400)]
  /\ TickBefore.frame.computedScale # LastTick.frame.computedScale
  /\ autoScale.value = Q(315, 16)
  /\ \E n \in DOMAIN TickBefore.after :
       /\ planetRefs[n].rotation[2] = Q(2, 100)
       /\ planetRefs[n].position =
            PlanetPosition(Body(n), LastTick.t, LastTick.frame)

\* The body p revolving the other way, otherwise identical.
Reversed(p) == [p EXCEPT !.direction = Neg(Nullish(p.direction, One))]

\* C21: with speedFactor 1 and 0 <= t <= P, the position a tick at elapsed
\* time t writes for a body of period P is the position of the otherwise
\* identical body of the opposite direction at elapsed time P - t (so the body
\* with direction -1 at t is where the one with direction +1 is at P - t,
\* whatever the phase), and a body with no direction configured is written
\* where the same body with direction +1 is.
C21_DirectionReversesRevolution ==
  (ticks # <<>> /\ LastTick.frame.speedFactor = One) =>
    \A n \in DOMAIN LastTick.before :
      LET p == Body(n)
          t == LastTick.t
      IN  /\ (~Less(t, Zero) /\ ~Greater(t, p.period)) =>
               LastTick.after[n].position =
                 PlanetPosition(Reversed(p), Add(p.period, Neg(t)), LastTick.frame)
          /\ p.direction = Undefined =>
               LastTick.after[n].position =
                 PlanetPosition([p EXCEPT !.direction = One], t, LastTick.frame)

\* C21 happens: under speedFactor 1 a tick at t = 5/2 writes the prograde body
\* of period 10 where its retrograde twin is at t = 15/2 and not where the
\* twin is at t = 5/2, and writes the body with no direction configured.
C21_Witness ==
  /\ ticks # <<>>
  /\ LastTick.frame.speedFactor = One
  /\ LastTick.t = Q(5, 2)
  /\ {"Circ", "Outer"} \subseteq DOMAIN LastTick.before
  /\ Body("Outer").direction = Undefined
  /\ Body("Circ").direction = One
  /\ LastTick.after["Circ"].position =
       PlanetPosition(Reversed(Body("Circ")), Q(15, 2), LastTick.frame)
  /\ LastTick.after["Circ"].position #
       PlanetPosition(Reversed(Body("Circ")), Q(5, 2), LastTick.frame)

EyesOpen == blinkState = [left |-> One, right |-> One]

\* C23 (as the specification states it): the vertical scale of each eye is
\* always 0.1 or 1; a frame triggers a blink only when more than 2 seconds of
\* elapsed time have passed since the frame that triggered the blink before;
\* once a reset timer has fired, the render of its update leaves both eyes
\* open; and an eye that is closed is open again later, under every
\* interleaving of frames, renders and timer callbacks.
C23_BlinkCycle ==
  /\ [](/\ blinkState.left \in {Q(1, 10), One}
        /\ blinkState.right \in {Q(1, 10), One})
  /\ [](\A i \in 2..Len(blinks) :
          Greater(Add(blinks[i], Neg(blinks[i - 1])), Num(2)))
  /\ [][Len(timeouts') < Len(timeouts) =>
          UseState(blinkState', blinkStateQueue') = [left |-> One, right |-> One]]_vars
  /\ (~EyesOpen) ~> EyesOpen

\* C23, what the code does: a frame that triggers a blink at elapsed time 3
\* queues setLastBlink(3); the frame 150 ms later runs before React has
\* rendered the update, its callback still holds lastBlink = 0, and it
\* triggers a blink again, 0.15 s after the one before.
C23_BlinkRetriggered ==
  /\ Len(blinks) >= 2
  /\ blinks[1] = Num(3)
  /\ blinks[2] = Q(63, 20)
  /\ lastBlink = Zero
  /\ lastBlinkQueue = <<Num(3), Q(63, 20)>>
  /\ Len(timeouts) = 2

=============================================================================
